---------------------------- MODULE Spec2Model ----------------------------
(***************************************************************************)
(* A model of orgpage.py, the Python port of org-page's HTML conversion:   *)
(* OrgParser (metadata extraction, directive-line removal, the line loop   *)
(* of _convert_to_html, inline markup, tables, the table of contents) and  *)
(* the parser instance an OrgPageConverter shares between documents.       *)
(*                                                                         *)
(* A Python str is a sequence of one-character strings, so that regular    *)
(* expressions, strip, split and join are computed character by character. *)
(***************************************************************************)
EXTENDS Integers, Sequences, FiniteSets, TLC

(***************************************************************************)
(* Characters and the str methods the parser uses.                         *)
(***************************************************************************)
UpperSeq == <<"A","B","C","D","E","F","G","H","I","J","K","L","M","N","O","P","Q","R","S","T","U","V","W","X","Y","Z">>
LowerSeq == <<"a","b","c","d","e","f","g","h","i","j","k","l","m","n","o","p","q","r","s","t","u","v","w","x","y","z">>
DigitSeq == <<"0","1","2","3","4","5","6","7","8","9">>

Range(s) == {s[k] : k \in 1..Len(s)}

UpperChars == Range(UpperSeq)
LowerChars == Range(LowerSeq)
DigitChars == Range(DigitSeq)

\* \s of the re module and the characters str.strip() removes
SpaceChars == {" ", "\t", "\n", "\r"}

IsSpace(c) == c \in SpaceChars
IsDigit(c) == c \in DigitChars
\* \w of the re module
IsWord(c) == c \in UpperChars \cup LowerChars \cup DigitChars \cup {"_"}

DigitVal(c) == (CHOOSE k \in 1..10 : DigitSeq[k] = c) - 1

\* str.lower() on one character
LowerChar(c) == IF c \in UpperChars THEN LowerSeq[CHOOSE k \in 1..26 : UpperSeq[k] = c] ELSE c
\* str.lower()
Lower(s) == [k \in 1..Len(s) |-> LowerChar(s[k])]

Max(S) == CHOOSE x \in S : \A y \in S : y <= x
Min(S) == CHOOSE x \in S : \A y \in S : x <= y

\* s[a-1:] of Python, 1-based
From(s, a) == SubSeq(s, a, Len(s))

\* s.startswith(pat, p-1)
StartsWithAt(s, p, pat) ==
    /\ p + Len(pat) - 1 <= Len(s)
    /\ SubSeq(s, p, p + Len(pat) - 1) = pat

StartsWith(s, pat) == StartsWithAt(s, 1, pat)

\* the position after a greedy \s* that starts at p
SkipSpace(s, p) ==
    CHOOSE q \in p..(Len(s) + 1) :
        /\ \A r \in p..(q - 1) : IsSpace(s[r])
        /\ (q = Len(s) + 1 \/ ~IsSpace(s[q]))

\* the position after a greedy run of characters of set cs that starts at p
SkipSet(s, p, cs) ==
    CHOOSE q \in p..(Len(s) + 1) :
        /\ \A r \in p..(q - 1) : s[r] \in cs
        /\ (q = Len(s) + 1 \/ s[q] \notin cs)

\* str.lstrip()
LStrip(s) == From(s, SkipSpace(s, 1))

\* str.strip()
Strip(s) ==
    LET keep == {k \in 1..Len(s) : ~IsSpace(s[k])}
    IN  IF keep = {} THEN <<>> ELSE SubSeq(s, Min(keep), Max(keep))

\* the index of the last character of the line that holds position p
EndOfLine(s, p) ==
    LET nl == {k \in p..Len(s) : s[k] = "\n"}
    IN  IF nl = {} THEN Len(s) ELSE Min(nl) - 1

\* str.split(sep) for a one-character separator
RECURSIVE SplitOn(_, _)
SplitOn(s, sep) ==
    LET at == {k \in 1..Len(s) : s[k] = sep}
    IN  IF at = {} THEN <<s>>
        ELSE <<SubSeq(s, 1, Min(at) - 1)>> \o SplitOn(From(s, Min(at) + 1), sep)

\* str.split(): the maximal runs of non-whitespace characters
RECURSIVE SplitWhitespace(_)
SplitWhitespace(s) ==
    LET a == SkipSpace(s, 1)
    IN  IF a > Len(s) THEN <<>>
        ELSE LET b == SkipSet(s, a, Range(s) \ SpaceChars)
             IN  <<SubSeq(s, a, b - 1)>> \o SplitWhitespace(From(s, b))

\* sep.join(parts)
RECURSIVE JoinWith(_, _)
JoinWith(parts, sep) ==
    IF parts = <<>> THEN <<>>
    ELSE IF Len(parts) = 1 THEN parts[1]
    ELSE parts[1] \o sep \o JoinWith(Tail(parts), sep)

\* content.split("\n") and "\n".join(lines)
SplitLines(s) == SplitOn(s, "\n")
JoinLines(ls) == JoinWith(ls, <<"\n">>)

\* the concatenation of a sequence of strings
Concat(parts) == JoinWith(parts, <<>>)

\* html.escape(s), quote=True
EscapeChar(c) ==
    CASE c = "&" -> <<"&","a","m","p",";">>
      [] c = "<" -> <<"&","l","t",";">>
      [] c = ">" -> <<"&","g","t",";">>
      [] c = "\"" -> <<"&","q","u","o","t",";">>
      [] c = "'" -> <<"&","#","x","2","7",";">>
      [] OTHER -> <<c>>

HtmlEscape(s) == Concat([k \in 1..Len(s) |-> EscapeChar(s[k])])

\* str(n) for a natural number
RECURSIVE Str(_)
Str(n) == IF n < 10 THEN <<DigitSeq[n + 1]>> ELSE Str(n \div 10) \o <<DigitSeq[(n % 10) + 1]>>

(***************************************************************************)
(* OrgMetadata and OrgParser._parse_date.  datetime.strptime compiles the  *)
(* format to a regular expression (one ordered alternation per directive,  *)
(* \s+ per blank), matches it at the start of the string, rejects          *)
(* unconverted data, and datetime() rejects a day the month does not have. *)
(***************************************************************************)
NoDate == [none |-> TRUE]

\* OrgMetadata(): every field at its default
DefaultMetadata ==
    [title |-> <<>>, date |-> NoDate, tags |-> <<>>, categories |-> <<>>,
     author |-> <<>>, description |-> <<>>, uri |-> <<>>, keywords |-> <<>>]

WeekdayAbbrevs == {<<"m","o","n">>, <<"t","u","e">>, <<"w","e","d">>, <<"t","h","u">>, <<"f","r","i">>, <<"s","a","t">>, <<"s","u","n">>}

\* the formats list of _parse_date, a blank written "ws"
DateFormats ==
    << <<"Y", "-", "m", "-", "d">>,
       <<"Y", "-", "m", "-", "d", "ws", "H", ":", "M">>,
       <<"Y", "-", "m", "-", "d", "ws", "a">>,
       <<"Y", "-", "m", "-", "d", "ws", "a", "ws", "H", ":", "M">>,
       <<"m", "/", "d", "/", "Y">>,
       <<"d", ".", "m", ".", "Y">> >>

CharIn(s, p, cs) == p <= Len(s) /\ s[p] \in cs

\* the lengths one format token can match at p, in the order the regular
\* expression tries them
TokenAlts(tok, s, p) ==
    LET two(a, b) == IF CharIn(s, p, a) /\ CharIn(s, p + 1, b) THEN <<2>> ELSE <<>>
        one(a) == IF CharIn(s, p, a) THEN <<1>> ELSE <<>>
        D(lo, hi) == {DigitSeq[k + 1] : k \in lo..hi}
    IN  CASE tok = "Y" ->
               IF \A k \in 0..3 : CharIn(s, p + k, DigitChars) THEN <<4>> ELSE <<>>
          [] tok = "m" -> two({"1"}, D(0, 2)) \o two({"0"}, D(1, 9)) \o one(D(1, 9))
          [] tok = "d" -> two({"3"}, D(0, 1)) \o two(D(1, 2), DigitChars)
                          \o two({"0"}, D(1, 9)) \o one(D(1, 9)) \o two({" "}, D(1, 9))
          [] tok = "H" -> two({"2"}, D(0, 3)) \o two(D(0, 1), DigitChars) \o one(DigitChars)
          [] tok = "M" -> two(D(0, 5), DigitChars) \o one(DigitChars)
          [] tok = "a" ->
               IF p + 2 <= Len(s) /\ Lower(SubSeq(s, p, p + 2)) \in WeekdayAbbrevs
               THEN <<3>> ELSE <<>>
          [] tok = "ws" ->
               LET n == SkipSpace(s, p) - p IN [k \in 1..n |-> n + 1 - k]
          [] OTHER -> one({tok})

\* the regular expression match of format tokens k.. at position p: the
\* lengths matched by each token, the first alternative that lets the rest
\* match
RECURSIVE MatchFormat(_, _, _, _), TryAlts(_, _, _, _, _)
MatchFormat(s, p, fmt, k) ==
    IF k > Len(fmt) THEN [ok |-> TRUE, lens |-> <<>>]
    ELSE TryAlts(s, p, fmt, k, TokenAlts(fmt[k], s, p))

TryAlts(s, p, fmt, k, alts) ==
    IF alts = <<>> THEN [ok |-> FALSE, lens |-> <<>>]
    ELSE LET r == MatchFormat(s, p + alts[1], fmt, k + 1)
         IN  IF r.ok THEN [ok |-> TRUE, lens |-> <<alts[1]>> \o r.lens]
             ELSE TryAlts(s, p, fmt, k, Tail(alts))

RECURSIVE SumSeq(_)
SumSeq(ns) == IF ns = <<>> THEN 0 ELSE ns[1] + SumSeq(Tail(ns))

\* int() of a matched group
RECURSIVE IntOf(_)
IntOf(s) ==
    IF s = <<>> THEN 0
    ELSE IF s[Len(s)] = " " THEN IntOf(SubSeq(s, 1, Len(s) - 1))
    ELSE 10 * IntOf(SubSeq(s, 1, Len(s) - 1)) + DigitVal(s[Len(s)])

IsLeap(y) == y % 4 = 0 /\ (y % 100 # 0 \/ y % 400 = 0)

DaysInMonth(y, m) ==
    IF m = 2 THEN (IF IsLeap(y) THEN 29 ELSE 28)
    ELSE IF m \in {4, 6, 9, 11} THEN 30 ELSE 31

\* datetime.strptime(s, fmt): a datetime, or NoDate for ValueError
Strptime(s, fmt) ==
    LET r == MatchFormat(s, 1, fmt, 1)
        start(k) == 1 + SumSeq(SubSeq(r.lens, 1, k - 1))
        val(tok, dflt) ==
            LET ks == {k \in 1..Len(fmt) : fmt[k] = tok}
            IN  IF ks = {} THEN dflt
                ELSE LET k == Min(ks)
                     IN  IntOf(SubSeq(s, start(k), start(k) + r.lens[k] - 1))
        y == val("Y", 1900)
        m == val("m", 1)
        d == val("d", 1)
    IN  IF ~r.ok \/ SumSeq(r.lens) # Len(s) THEN NoDate
        ELSE IF y < 1 \/ d > DaysInMonth(y, m) THEN NoDate
        ELSE [none |-> FALSE, year |-> y, month |-> m, day |-> d,
              hour |-> val("H", 0), minute |-> val("M", 0)]

\* OrgParser._parse_date
ParseDate(date_str) ==
    LET unbracketed == SelectSeq(date_str, LAMBDA c : c \notin {"<", ">", "[", "]"})
        s == Strip(unbracketed)
        ok == {k \in 1..Len(DateFormats) : Strptime(s, DateFormats[k]) # NoDate}
    IN  IF ok = {} THEN NoDate ELSE Strptime(s, DateFormats[Min(ok)])

(***************************************************************************)
(* OrgParser._extract_metadata: one re.search per key, with re.MULTILINE,  *)
(* of ^\s*#\+KEY:\s*(.+)$ over the whole text.  \s matches a line break,   *)
(* "." does not.                                                           *)
(***************************************************************************)
NoMatch == [matched |-> FALSE, group |-> <<>>]

\* re.match of \s*#\+KEY:\s*(.+)$ at a line start p; pats are the texts
\* #+KEY: the key's pattern can match
DirectiveMatchAt(content, p, pats) ==
    LET q == SkipSpace(content, p)
        hit == {pat \in pats : StartsWithAt(content, q, pat)}
    IN  IF hit = {} THEN NoMatch
        ELSE LET r == q + Len(CHOOSE pat \in hit : TRUE)
                 v == SkipSpace(content, r)
                 \* \s* ran to the end of the text: it gives characters back
                 \* until (.+) can take one that is not a line break
                 back == {e \in r..Len(content) : content[e] # "\n"}
             IN  IF v <= Len(content)
                 THEN [matched |-> TRUE, group |-> SubSeq(content, v, EndOfLine(content, v))]
                 ELSE IF back = {} THEN NoMatch
                 ELSE [matched |-> TRUE, group |-> <<content[Max(back)]>>]

\* the positions ^ matches under re.MULTILINE
LineStarts(content) ==
    {p \in 1..Len(content) : p = 1 \/ content[p - 1] = "\n"}

\* re.search(r"^\s*#\+KEY:\s*(.+)$", content, re.MULTILINE): the leftmost match
SearchDirective(content, pats) ==
    LET ok == {p \in LineStarts(content) : DirectiveMatchAt(content, p, pats).matched}
    IN  IF ok = {} THEN NoMatch ELSE DirectiveMatchAt(content, Min(ok), pats)

\* [x.strip() for x in parts]
StripEach(parts) == [k \in 1..Len(parts) |-> Strip(parts[k])]

\* OrgParser._extract_metadata
ExtractMetadata(content) ==
    LET title_match == SearchDirective(content, {<<"#","+","T","I","T","L","E",":">>})
        date_match == SearchDirective(content, {<<"#","+","D","A","T","E",":">>})
        tags_match == SearchDirective(content, {<<"#","+","T","A","G","S",":">>})
        categories_match == SearchDirective(content, {<<"#","+","C","A","T","E","G","O","R","I","E",":">>, <<"#","+","C","A","T","E","G","O","R","I","E","S",":">>})
        author_match == SearchDirective(content, {<<"#","+","A","U","T","H","O","R",":">>})
        desc_match == SearchDirective(content, {<<"#","+","D","E","S","C","R","I","P","T","I","O","N",":">>})
        uri_match == SearchDirective(content, {<<"#","+","U","R","I",":">>})
        keywords_match == SearchDirective(content, {<<"#","+","K","E","Y","W","O","R","D","S",":">>})
    IN  [title |-> IF title_match.matched THEN Strip(title_match.group) ELSE <<>>,
         date |-> IF date_match.matched THEN ParseDate(Strip(date_match.group)) ELSE NoDate,
         tags |-> IF tags_match.matched
                  THEN StripEach(SplitWhitespace(tags_match.group)) ELSE <<>>,
         categories |-> IF categories_match.matched
                        THEN StripEach(SplitWhitespace(categories_match.group)) ELSE <<>>,
         author |-> IF author_match.matched THEN Strip(author_match.group) ELSE <<>>,
         description |-> IF desc_match.matched THEN Strip(desc_match.group) ELSE <<>>,
         uri |-> IF uri_match.matched THEN Strip(uri_match.group) ELSE <<>>,
         keywords |-> IF keywords_match.matched
                      THEN StripEach(SplitOn(keywords_match.group, ",")) ELSE <<>>]

\* a variant that knows the recognized keys only
IsRecognizedKeyLine(line) ==
    \E pat \in {<<"#","+","T","I","T","L","E",":">>, <<"#","+","D","A","T","E",":">>, <<"#","+","T","A","G","S",":">>, <<"#","+","C","A","T","E","G","O","R","I","E",":">>, <<"#","+","C","A","T","E","G","O","R","I","E","S",":">>,
                <<"#","+","A","U","T","H","O","R",":">>, <<"#","+","D","E","S","C","R","I","P","T","I","O","N",":">>, <<"#","+","U","R","I",":">>, <<"#","+","K","E","Y","W","O","R","D","S",":">>} :
        StartsWith(LStrip(line), pat)

\* re.match(r"^\s*#\+[A-Z_]+:", line)
IsMetadataLine(line) ==
    LET q == SkipSpace(line, 1)
        r == SkipSet(line, q + 2, UpperChars \cup {"_"})
    IN  /\ StartsWithAt(line, q, <<"#","+">>)
        /\ r > q + 2
        /\ r <= Len(line)
        /\ line[r] = ":"

\* a variant that stops filtering after the first directive line
RemoveFirstMetadataLine(content) ==
    LET lines == SplitLines(content)
        at == {k \in 1..Len(lines) : IsMetadataLine(lines[k])}
    IN  IF at = {} THEN content
        ELSE JoinLines(SubSeq(lines, 1, Min(at) - 1) \o SubSeq(lines, Min(at) + 1, Len(lines)))

\* OrgParser._remove_metadata_lines
RemoveMetadataLines(content) ==
    JoinLines(SelectSeq(SplitLines(content), LAMBDA line : ~IsMetadataLine(line)))

(***************************************************************************)
(* OrgParser._process_inline_markup: eight re.sub passes, each over the    *)
(* output of the one before.                                               *)
(***************************************************************************)
\* re.sub(r"D([^D]+)D", open + r"\1" + close, text) for a one-character
\* delimiter D: leftmost matches, not overlapping
RECURSIVE SubDelimited(_, _, _, _)
SubDelimited(text, d, open, close) ==
    IF text = <<>> THEN <<>>
    ELSE LET nxt == {k \in 2..Len(text) : text[k] = d}
         IN  IF text[1] = d /\ nxt # {} /\ Min(nxt) > 2
             THEN open \o SubSeq(text, 2, Min(nxt) - 1) \o close
                  \o SubDelimited(From(text, Min(nxt) + 1), d, open, close)
             ELSE <<text[1]>> \o SubDelimited(Tail(text), d, open, close)

NotBracket(text) == Range(text) \ {"]"}

\* re.sub(r"\[\[([^\]]+)\]\[([^\]]+)\]\]", r'<a href="\1">\2</a>', text)
RECURSIVE SubLabelledLink(_)
SubLabelledLink(text) ==
    IF text = <<>> THEN <<>>
    ELSE LET a == SkipSet(text, 3, NotBracket(text))
             b == SkipSet(text, a + 2, NotBracket(text))
         IN  IF /\ StartsWith(text, <<"[","[">>)
                /\ a > 3
                /\ StartsWithAt(text, a, <<"]","[">>)
                /\ b > a + 2
                /\ StartsWithAt(text, b, <<"]","]">>)
             THEN <<"<","a"," ","h","r","e","f","=","\"">> \o SubSeq(text, 3, a - 1) \o <<"\"",">">>
                  \o SubSeq(text, a + 2, b - 1) \o <<"<","/","a",">">>
                  \o SubLabelledLink(From(text, b + 2))
             ELSE <<text[1]>> \o SubLabelledLink(Tail(text))

\* re.sub(r"\[\[([^\]]+)\]\]", r'<a href="\1">\1</a>', text)
RECURSIVE SubBareLink(_)
SubBareLink(text) ==
    IF text = <<>> THEN <<>>
    ELSE LET a == SkipSet(text, 3, NotBracket(text))
         IN  IF /\ StartsWith(text, <<"[","[">>)
                /\ a > 3
                /\ StartsWithAt(text, a, <<"]","]">>)
             THEN <<"<","a"," ","h","r","e","f","=","\"">> \o SubSeq(text, 3, a - 1) \o <<"\"",">">>
                  \o SubSeq(text, 3, a - 1) \o <<"<","/","a",">">>
                  \o SubBareLink(From(text, a + 2))
             ELSE <<text[1]>> \o SubBareLink(Tail(text))

\* OrgParser._process_inline_markup
ProcessInlineMarkup(text) ==
    LET bold == SubDelimited(text, "*", <<"<","s","t","r","o","n","g",">">>, <<"<","/","s","t","r","o","n","g",">">>)
        italic == SubDelimited(bold, "/", <<"<","e","m",">">>, <<"<","/","e","m",">">>)
        underline == SubDelimited(italic, "_", <<"<","u",">">>, <<"<","/","u",">">>)
        strike == SubDelimited(underline, "+", <<"<","d","e","l",">">>, <<"<","/","d","e","l",">">>)
        code1 == SubDelimited(strike, "=", <<"<","c","o","d","e",">">>, <<"<","/","c","o","d","e",">">>)
        code2 == SubDelimited(code1, "~", <<"<","c","o","d","e",">">>, <<"<","/","c","o","d","e",">">>)
    IN  SubBareLink(SubLabelledLink(code2))

(***************************************************************************)
(* The line patterns of OrgParser._convert_to_html.                        *)
(***************************************************************************)
\* \s+(.+)$ at position r of a line: one whitespace character at least, and
\* one more character of any kind, which \s+ gives back when the rest of
\* the line is all whitespace
RestMatches(line, r) == r + 1 <= Len(line) /\ IsSpace(line[r])

\* the text (.+) captures there
RestGroup(line, r) ==
    LET v == SkipSpace(line, r)
    IN  IF v <= Len(line) THEN From(line, v) ELSE <<line[Len(line)]>>

\* re.match(r"^(\*+)\s+(.+)$", line)
HeadingMatch(line) ==
    LET r == SkipSet(line, 1, {"*"})
    IN  IF r > 1 /\ RestMatches(line, r)
        THEN [matched |-> TRUE, g1 |-> SubSeq(line, 1, r - 1), g2 |-> RestGroup(line, r)]
        ELSE [matched |-> FALSE, g1 |-> <<>>, g2 |-> <<>>]

\* re.match(r"^(\s*)[-+*]\s+(.+)$", line)
ListMatch(line) ==
    LET q == SkipSpace(line, 1)
    IN  IF CharIn(line, q, {"-", "+", "*"}) /\ RestMatches(line, q + 1)
        THEN [matched |-> TRUE, g1 |-> SubSeq(line, 1, q - 1), g2 |-> RestGroup(line, q + 1)]
        ELSE [matched |-> FALSE, g1 |-> <<>>, g2 |-> <<>>]

\* re.match(r"^(\s*)(\d+)\.?\s+(.+)$", line)
NumListMatch(line) ==
    LET q == SkipSpace(line, 1)
        d == SkipSet(line, q, DigitChars)
        r == IF CharIn(line, d, {"."}) THEN d + 1 ELSE d
    IN  IF d > q /\ RestMatches(line, r)
        THEN [matched |-> TRUE, g1 |-> SubSeq(line, 1, q - 1),
              g2 |-> SubSeq(line, q, d - 1), g3 |-> RestGroup(line, r)]
        ELSE [matched |-> FALSE, g1 |-> <<>>, g2 |-> <<>>, g3 |-> <<>>]

\* re.match(r"^\s*-{5,}\s*$", line)
IsHorizontalRule(line) ==
    LET q == SkipSpace(line, 1)
        e == SkipSet(line, q, {"-"})
    IN  e - q >= 5 /\ SkipSpace(line, e) = Len(line) + 1

\* line.strip().startswith("|") and "|" in line.strip()[1:]
IsTableRow(line) ==
    LET st == Strip(line)
    IN  StartsWith(st, <<"|">>) /\ "|" \in Range(From(st, 2))

\* line.strip().startswith(upper) or line.strip().startswith(lower)
IsMarker(line, upper, lower) ==
    StartsWith(Strip(line), upper) \/ StartsWith(Strip(line), lower)

\* re.search(r"#+BEGIN_SRC\s+(\w+)", line, re.IGNORECASE): in the pattern
\* "#+" is one or more "#", so the text it finds is "#BEGIN_SRC", never
\* "#+BEGIN_SRC"
LangMatch(line) ==
    LET n == Len(<<"B","E","G","I","N","_","S","R","C">>)
        at == {q \in 2..Len(line) :
                 /\ line[q - 1] = "#"
                 /\ q + n <= Len(line)
                 /\ Lower(SubSeq(line, q, q + n - 1)) = <<"b","e","g","i","n","_","s","r","c">>
                 /\ IsSpace(line[q + n])
                 /\ CharIn(line, SkipSpace(line, q + n), {c \in Range(line) : IsWord(c)})}
    IN  IF at = {} THEN NoMatch
        ELSE LET w == SkipSpace(line, Min(at) + n)
             IN  [matched |-> TRUE,
                  group |-> SubSeq(line, w, SkipSet(line, w, {c \in Range(line) : IsWord(c)}) - 1)]

\* anchor = re.sub(r"[^\w\s-]", "", title).strip().lower()
\* anchor = re.sub(r"[-\s]+", "-", anchor)
RECURSIVE CollapseRuns(_)
CollapseRuns(s) ==
    IF s = <<>> THEN <<>>
    ELSE IF s[1] \in SpaceChars \cup {"-"}
    THEN <<"-">> \o CollapseRuns(From(s, SkipSet(s, 1, SpaceChars \cup {"-"})))
    ELSE <<s[1]>> \o CollapseRuns(Tail(s))

Anchor(title) ==
    CollapseRuns(Lower(Strip(SelectSeq(title, LAMBDA c : IsWord(c) \/ IsSpace(c) \/ c = "-"))))

(***************************************************************************)
(* OrgParser._parse_table.  The separator test compiles the pattern        *)
(* ^\|[\s-+:]+\|$ on the first row it looks at.  In the class [\s-+:] the  *)
(* hyphen stands between \s and +, so it is read as a range, and a range   *)
(* with a class such as \s for an end is refused: re.error, "bad character *)
(* range \s-+".  Every call that has a row to look at raises, and the      *)
(* rendering code after the loop is reached only with no row at all.       *)
(***************************************************************************)
\* the items of the character class [\s-+:]
SeparatorClass == <<<<"\\","s">>, <<"-">>, <<"+">>, <<":">>>>

\* sre_parse: inside [...], x-y is a range unless the hyphen is first or
\* last, and a range needs two literal ends
BadCharacterRange(items) ==
    \E k \in 2..(Len(items) - 1) :
        /\ items[k] = <<"-">>
        /\ (Len(items[k - 1]) > 1 \/ Len(items[k + 1]) > 1)

\* re.match(r"^\|[\s-+:]+\|$", line), were the pattern to compile: a row of
\* pipes around whitespace, hyphens, pluses and colons
IsSeparatorRow(line) ==
    LET e == SkipSet(line, 2, SpaceChars \cup {"-", "+", ":"})
    IN  StartsWith(line, <<"|">>) /\ e > 2 /\ e = Len(line) /\ line[e] = "|"

\* [cell.strip() for cell in row.split("|")[1:-1]]
TableCells(row) ==
    LET parts == SplitOn(row, "|")
    IN  StripEach(SubSeq(parts, 2, Len(parts) - 1))

\* the html list of _parse_table for the retained rows
TableHtml(table_lines) ==
    LET th(cells) == [k \in 1..Len(cells) |-> <<"<","t","h",">">> \o ProcessInlineMarkup(cells[k]) \o <<"<","/","t","h",">">>]
        td(cells) == [k \in 1..Len(cells) |-> <<"<","t","d",">">> \o ProcessInlineMarkup(cells[k]) \o <<"<","/","t","d",">">>]
        tr(row) == <<<<"<","t","r",">">>>> \o td(TableCells(row)) \o <<<<"<","/","t","r",">">>>>
        RECURSIVE rows(_)
        rows(rs) == IF rs = <<>> THEN <<>> ELSE tr(rs[1]) \o rows(Tail(rs))
    IN  <<<<"<","t","a","b","l","e",">">>, <<"<","t","h","e","a","d",">","<","t","r",">">>>> \o th(TableCells(table_lines[1])) \o <<<<"<","/","t","r",">","<","/","t","h","e","a","d",">">>>>
        \o (IF Len(table_lines) > 1
            THEN <<<<"<","t","b","o","d","y",">">>>> \o rows(Tail(table_lines)) \o <<<<"<","/","t","b","o","d","y",">">>>>
            ELSE <<>>)
        \o <<<<"<","/","t","a","b","l","e",">">>>>

\* the number of leading lines that, stripped, start with a pipe
TableRun(tlines) ==
    Max({n \in 0..Len(tlines) : \A k \in 1..n : StartsWith(Strip(tlines[k]), <<"|">>)})

\* OrgParser._parse_table: raised, or (html, lines consumed)
ParseTable(tlines) ==
    LET n == TableRun(tlines)
        stripped == [k \in 1..n |-> Strip(tlines[k])]
        table_lines == SelectSeq(stripped, LAMBDA line : ~IsSeparatorRow(line))
    IN  IF n > 0 /\ BadCharacterRange(SeparatorClass)
        THEN [raised |-> TRUE, html |-> <<>>, consumed |-> 0]
        ELSE IF table_lines = <<>>
        THEN [raised |-> FALSE, html |-> <<>>, consumed |-> n]
        ELSE [raised |-> FALSE, html |-> JoinLines(TableHtml(table_lines)), consumed |-> n]

(***************************************************************************)
(* OrgParser._generate_toc.                                                *)
(***************************************************************************)
\* n copies of x
Repeat(x, n) == [k \in 1..n |-> x]

\* f"</{stack.pop()}>" until the stack is empty
CloseAll(stack) == [k \in 1..Len(stack) |-> <<"<","/">> \o stack[Len(stack) + 1 - k] \o <<">">>]

\* f"</{stack.pop()}>", n times
CloseTop(stack, n) == SubSeq(CloseAll(stack), 1, n)

\* the locals of _generate_toc before its loop
TocStart(toc_entries) ==
    [entries |-> toc_entries, k |-> 1, current_level |-> 0, stack |-> <<>>,
     html |-> <<<<"<","d","i","v"," ","i","d","=","\"","t","a","b","l","e","-","o","f","-","c","o","n","t","e","n","t","s","\"",">">>, <<"<","h","2",">","T","a","b","l","e"," ","o","f"," ","C","o","n","t","e","n","t","s","<","/","h","2",">">>,
                <<"<","d","i","v"," ","i","d","=","\"","t","e","x","t","-","t","a","b","l","e","-","o","f","-","c","o","n","t","e","n","t","s","\"",">">>>>,
     exc |-> "none"]

\* a variant without the loop that closes containers
TocEntryNoClose(t) ==
    LET level == t.entries[t.k][1]
        opens == IF t.current_level < level THEN level - t.current_level ELSE 0
        item == <<"<","l","i",">","<","a"," ","h","r","e","f","=","\"","#">> \o t.entries[t.k][3] \o <<"\"",">">> \o t.entries[t.k][2] \o <<"<","/","a",">","<","/","l","i",">">>
    IN  [t EXCEPT !.html = @ \o Repeat(<<"<","u","l",">">>, opens) \o <<item>>,
                  !.stack = @ \o Repeat(<<"u","l">>, opens),
                  !.current_level = IF @ < level THEN level ELSE @,
                  !.k = @ + 1]

\* one iteration of the loop of _generate_toc, for entry k
TocEntry(t) ==
    LET level == t.entries[t.k][1]
        title == t.entries[t.k][2]
        anchor == t.entries[t.k][3]
        opens == IF t.current_level < level THEN level - t.current_level ELSE 0
        closes == IF t.current_level > level THEN t.current_level - level ELSE 0
        item == <<"<","l","i",">","<","a"," ","h","r","e","f","=","\"","#">> \o anchor \o <<"\"",">">> \o title \o <<"<","/","a",">","<","/","l","i",">">>
    IN  IF closes > Len(t.stack)
        THEN [t EXCEPT !.exc = "IndexError"]
        ELSE [t EXCEPT
                !.html = @ \o Repeat(<<"<","u","l",">">>, opens) \o CloseTop(t.stack, closes) \o <<item>>,
                !.stack = SubSeq(@ \o Repeat(<<"u","l">>, opens), 1, Len(@) + opens - closes),
                !.current_level = level,
                !.k = @ + 1]

\* the end of _generate_toc: the html list joined
TocFinish(t) ==
    JoinLines(t.html \o CloseAll(t.stack) \o <<<<"<","/","d","i","v",">">>, <<"<","/","d","i","v",">">>>>)

RECURSIVE TocRun(_)
TocRun(t) ==
    IF t.k > Len(t.entries) \/ t.exc # "none" THEN t ELSE TocRun(TocEntry(t))

\* OrgParser._generate_toc
GenerateToc(toc_entries) ==
    IF toc_entries = <<>> THEN <<>> ELSE TocFinish(TocRun(TocStart(toc_entries)))

(***************************************************************************)
(* OrgParser._convert_to_html: its locals, and one operator per branch of  *)
(* the line loop.  i counts from 0 as in the source; the line looked at is *)
(* lines[i + 1].                                                           *)
(***************************************************************************)
\* the locals before the loop
LoopStart(text) ==
    [lines |-> SplitLines(text), i |-> 0, html_lines |-> <<>>, toc_entries |-> <<>>,
     in_code_block |-> FALSE, current_list_level |-> 0, list_stack |-> <<>>,
     exc |-> "none"]

Line(s) == s.lines[s.i + 1]

\* a variant that tries the bulleted-item rule before the heading rule
BranchListFirst(s) ==
    LET line == Line(s)
    IN  IF IsMarker(line, <<"#","+","B","E","G","I","N","_","S","R","C">>, <<"#","+","b","e","g","i","n","_","s","r","c">>) THEN "begin_src"
        ELSE IF IsMarker(line, <<"#","+","E","N","D","_","S","R","C">>, <<"#","+","e","n","d","_","s","r","c">>) THEN "end_src"
        ELSE IF s.in_code_block THEN "code"
        ELSE IF IsMarker(line, <<"#","+","B","E","G","I","N","_","Q","U","O","T","E">>, <<"#","+","b","e","g","i","n","_","q","u","o","t","e">>) THEN "begin_quote"
        ELSE IF IsMarker(line, <<"#","+","E","N","D","_","Q","U","O","T","E">>, <<"#","+","e","n","d","_","q","u","o","t","e">>) THEN "end_quote"
        ELSE IF ListMatch(line).matched THEN "list"
        ELSE IF HeadingMatch(line).matched THEN "heading"
        ELSE IF NumListMatch(line).matched THEN "num_list"
        ELSE IF IsHorizontalRule(line) THEN "hr"
        ELSE IF IsTableRow(line) THEN "table"
        ELSE IF Strip(line) # <<>> THEN "paragraph"
        ELSE "blank"

\* the branch of the loop body the line takes
Branch(s) ==
    LET line == Line(s)
    IN  IF IsMarker(line, <<"#","+","B","E","G","I","N","_","S","R","C">>, <<"#","+","b","e","g","i","n","_","s","r","c">>) THEN "begin_src"
        ELSE IF IsMarker(line, <<"#","+","E","N","D","_","S","R","C">>, <<"#","+","e","n","d","_","s","r","c">>) THEN "end_src"
        ELSE IF s.in_code_block THEN "code"
        ELSE IF IsMarker(line, <<"#","+","B","E","G","I","N","_","Q","U","O","T","E">>, <<"#","+","b","e","g","i","n","_","q","u","o","t","e">>) THEN "begin_quote"
        ELSE IF IsMarker(line, <<"#","+","E","N","D","_","Q","U","O","T","E">>, <<"#","+","e","n","d","_","q","u","o","t","e">>) THEN "end_quote"
        ELSE IF HeadingMatch(line).matched THEN "heading"
        ELSE IF ListMatch(line).matched THEN "list"
        ELSE IF NumListMatch(line).matched THEN "num_list"
        ELSE IF IsHorizontalRule(line) THEN "hr"
        ELSE IF IsTableRow(line) THEN "table"
        ELSE IF Strip(line) # <<>> THEN "paragraph"
        ELSE "blank"

\* html_lines.append(x); i += 1; continue
Emit(s, x) == [s EXCEPT !.html_lines = Append(@, x), !.i = @ + 1]

StepBeginSrc(s) ==
    LET lang_match == LangMatch(Line(s))
        lang == IF lang_match.matched THEN lang_match.group ELSE <<>>
    IN  [Emit(s, <<"<","p","r","e"," ","c","l","a","s","s","=","\"","s","r","c"," ","s","r","c","-">> \o lang \o <<"\"",">","<","c","o","d","e",">">>) EXCEPT !.in_code_block = TRUE]

StepEndSrc(s) == [Emit(s, <<"<","/","c","o","d","e",">","<","/","p","r","e",">">>) EXCEPT !.in_code_block = FALSE]

StepCode(s) == Emit(s, HtmlEscape(Line(s)))

StepBeginQuote(s) == Emit(s, <<"<","b","l","o","c","k","q","u","o","t","e",">">>)

StepEndQuote(s) == Emit(s, <<"<","/","b","l","o","c","k","q","u","o","t","e",">">>)

\* the title the heading branch takes from the match
HeadingTitle(heading_match) == Strip(heading_match.g1)

\* f'<h{level} id="{anchor}">{self._process_inline_markup(title)}</h{level}>'
HeadingHtml(level, title, anchor) ==
    <<"<","h">> \o Str(level) \o <<" ","i","d","=","\"">> \o anchor \o <<"\"",">">> \o ProcessInlineMarkup(title)
    \o <<"<","/","h">> \o Str(level) \o <<">">>

StepHeading(s) ==
    LET heading_match == HeadingMatch(Line(s))
        level == Len(heading_match.g1)
        title == HeadingTitle(heading_match)
        anchor == Anchor(title)
    IN  [Emit(s, HeadingHtml(level, title, anchor)) EXCEPT
            !.toc_entries = Append(@, <<level, title, anchor>>)]

\* a variant that takes one level per space of indent
ListLevelPerSpace(indent) == indent + 1

\* level = indent // 2 + 1
ListLevel(indent) == indent \div 2 + 1

\* a variant that closes containers with the tag of the item at hand
ListItemClosesOwnTag(s, level, tag, item) ==
    LET opens == IF s.current_list_level < level THEN level - s.current_list_level ELSE 0
        closes == IF s.current_list_level > level THEN s.current_list_level - level ELSE 0
    IN  IF closes > Len(s.list_stack)
        THEN [s EXCEPT !.exc = "IndexError"]
        ELSE [s EXCEPT
                !.html_lines = @ \o Repeat(<<"<">> \o tag \o <<">">>, opens)
                               \o Repeat(<<"<","/">> \o tag \o <<">">>, closes)
                               \o <<<<"<","l","i",">">> \o ProcessInlineMarkup(item) \o <<"<","/","l","i",">">>>>,
                !.list_stack = SubSeq(@ \o Repeat(tag, opens), 1, Len(@) + opens - closes),
                !.current_list_level = level,
                !.i = @ + 1]

\* the two while loops of a list branch, then the item
ListItem(s, level, tag, item) ==
    LET opens == IF s.current_list_level < level THEN level - s.current_list_level ELSE 0
        closes == IF s.current_list_level > level THEN s.current_list_level - level ELSE 0
    IN  IF closes > Len(s.list_stack)
        THEN [s EXCEPT !.exc = "IndexError"]
        ELSE [s EXCEPT
                !.html_lines = @ \o Repeat(<<"<">> \o tag \o <<">">>, opens)
                               \o CloseTop(s.list_stack, closes)
                               \o <<<<"<","l","i",">">> \o ProcessInlineMarkup(item) \o <<"<","/","l","i",">">>>>,
                !.list_stack = SubSeq(@ \o Repeat(tag, opens), 1, Len(@) + opens - closes),
                !.current_list_level = level,
                !.i = @ + 1]

StepList(s) ==
    LET list_match == ListMatch(Line(s))
    IN  ListItem(s, ListLevel(Len(list_match.g1)), <<"u","l">>, list_match.g2)

StepNumList(s) ==
    LET num_list_match == NumListMatch(Line(s))
    IN  ListItem(s, ListLevel(Len(num_list_match.g1)), <<"o","l">>, num_list_match.g3)

\* a variant that empties the stack and leaves the level counter as it is
CloseOpenListsKeepLevel(s) ==
    IF s.current_list_level > 0
    THEN [s EXCEPT !.html_lines = @ \o CloseAll(s.list_stack), !.list_stack = <<>>]
    ELSE s

\* "Close any open lists if we're not in a list anymore"
CloseOpenLists(s) ==
    IF s.current_list_level > 0
    THEN [s EXCEPT !.html_lines = @ \o CloseAll(s.list_stack),
                   !.current_list_level = @ - Len(s.list_stack),
                   !.list_stack = <<>>]
    ELSE s

StepHr(s) == Emit(CloseOpenLists(s), <<"<","h","r"," ","/",">">>)

StepTable(s) ==
    LET c == CloseOpenLists(s)
        t == ParseTable(From(s.lines, s.i + 1))
    IN  IF t.raised THEN [c EXCEPT !.exc = "re.error"]
        ELSE [c EXCEPT !.html_lines = Append(@, t.html), !.i = @ + t.consumed]

StepParagraph(s) == Emit(CloseOpenLists(s), <<"<","p",">">> \o ProcessInlineMarkup(Line(s)) \o <<"<","/","p",">">>)

StepBlank(s) == Emit(CloseOpenLists(s), <<>>)

\* one iteration of the while loop
LoopStep(s) ==
    LET b == Branch(s)
    IN  CASE b = "begin_src" -> StepBeginSrc(s)
          [] b = "end_src" -> StepEndSrc(s)
          [] b = "code" -> StepCode(s)
          [] b = "begin_quote" -> StepBeginQuote(s)
          [] b = "end_quote" -> StepEndQuote(s)
          [] b = "heading" -> StepHeading(s)
          [] b = "list" -> StepList(s)
          [] b = "num_list" -> StepNumList(s)
          [] b = "hr" -> StepHr(s)
          [] b = "table" -> StepTable(s)
          [] b = "paragraph" -> StepParagraph(s)
          [] OTHER -> StepBlank(s)

\* while i < len(lines)
LoopRunning(s) == s.i < Len(s.lines) /\ s.exc = "none"

\* a variant that also closes a code container left open
LoopEndClosesCode(s) ==
    [s EXCEPT !.html_lines = @ \o CloseAll(s.list_stack)
                               \o (IF s.in_code_block THEN <<<<"<","/","c","o","d","e",">","<","/","p","r","e",">">>>> ELSE <<>>),
              !.list_stack = <<>>]

\* "Close any remaining open lists"
LoopEnd(s) == [s EXCEPT !.html_lines = @ \o CloseAll(s.list_stack), !.list_stack = <<>>]

RECURSIVE LoopRun(_)
LoopRun(s) == IF LoopRunning(s) THEN LoopRun(LoopStep(s)) ELSE s

\* OrgParser._convert_to_html: raised, or (content_html, toc_html)
ConvertToHtml(text) ==
    LET s == LoopRun(LoopStart(text))
        e == LoopEnd(s)
    IN  IF s.exc # "none"
        THEN [exc |-> s.exc, content_html |-> <<>>, toc_html |-> <<>>]
        ELSE [exc |-> "none", content_html |-> JoinLines(e.html_lines),
              toc_html |-> GenerateToc(e.toc_entries)]

(***************************************************************************)
(* The documents checked.  A document is its lines joined by line breaks;  *)
(* each family draws its lines from a small set and bounds their number.   *)
(***************************************************************************)
MaxMetaLines == 3
MaxKeyLines == 2
MaxListLines == 5
MaxCodeLines == 3
MaxMixLines == 2
MaxTableLines == 3
MaxTocEntries == 3
MaxTocLevel == 3
NumThreads == 2
MaxFiles == 2
MaxOrderedLines == 3

\* the non-empty sequences over S of length n at most
SeqsUpTo(S, n) == UNION {[1..k -> S] : k \in 1..n}

Texts(S, n) == {JoinLines(ls) : ls \in SeqsUpTo(S, n)}

\* directive lines with and without a value, unrecognized keys, body text
MetaLines ==
    {<<"#","+","T","I","T","L","E",":"," ","H","i">>, <<"#","+","T","I","T","L","E",":">>, <<" ","#","+","T","I","T","L","E",":"," "," ","B"," "," ">>, <<"#","+","T","A","G","S",":"," ","a"," ","b">>, <<"#","+","F","O","O","_","B","A","R",":"," ","x">>,
     <<"#","+","f","o","o",":"," ","x">>, <<"B","o","d","y">>, <<>>}

\* per recognized key: two lines with a value, one without, and body text
KeyLines ==
    {{<<"#","+","T","I","T","L","E",":"," ","A">>, <<"#","+","T","I","T","L","E",":"," ","B">>, <<"#","+","T","I","T","L","E",":">>, <<"t","e","x","t">>},
     {<<"#","+","D","A","T","E",":"," ","2","0","2","4","-","0","1","-","1","5">>, <<"#","+","D","A","T","E",":"," ","<","2","0","2","3","-","1","2","-","0","1"," ","F","r","i",">">>, <<"#","+","D","A","T","E",":"," ">>, <<"1","2","/","3","1","/","2","0","2","4">>},
     {<<"#","+","T","A","G","S",":"," ","a"," ","b">>, <<"#","+","T","A","G","S",":"," ","c">>, <<"#","+","T","A","G","S",":">>, <<"t","e","x","t">>},
     {<<"#","+","C","A","T","E","G","O","R","I","E","S",":"," ","x">>, <<"#","+","C","A","T","E","G","O","R","I","E",":"," ","y"," ","z">>, <<"#","+","C","A","T","E","G","O","R","I","E","S",":">>, <<"#","+","C","A","T","E","G","O","R","Y",":"," ","w">>},
     {<<"#","+","A","U","T","H","O","R",":"," ","m","e">>, <<"#","+","A","U","T","H","O","R",":"," ","y","o","u">>, <<"#","+","A","U","T","H","O","R",":">>, <<"t","e","x","t">>},
     {<<"#","+","D","E","S","C","R","I","P","T","I","O","N",":"," ","d">>, <<"#","+","D","E","S","C","R","I","P","T","I","O","N",":"," ","e">>, <<"#","+","D","E","S","C","R","I","P","T","I","O","N",":">>, <<"t","e","x","t">>},
     {<<"#","+","U","R","I",":"," ","/","u">>, <<"#","+","U","R","I",":"," ","v">>, <<"#","+","U","R","I",":">>, <<"t","e","x","t">>},
     {<<"#","+","K","E","Y","W","O","R","D","S",":"," ","k",","," ","l">>, <<"#","+","K","E","Y","W","O","R","D","S",":"," ","m">>, <<"#","+","K","E","Y","W","O","R","D","S",":">>, <<"k",",">>}}

\* bulleted items at indents 0, 2 and 4
ListLines == {<<"-"," ","a">>, <<" "," ","-"," ","b">>, <<" "," "," "," ","-"," ","c">>}

CodeLines ==
    {<<"#","+","B","E","G","I","N","_","S","R","C"," ","p","y">>, <<"#","+","b","e","g","i","n","_","s","r","c">>, <<"#","+","E","N","D","_","S","R","C">>, <<"x","<","1">>, <<"*"," ","H">>, <<"-"," ","a">>}

\* bulleted and numbered items at indents 0 and 2, and a paragraph
OrderedLines == {<<"-"," ","a">>, <<"1","."," ","b">>, <<" "," ","-"," ","c">>, <<" "," ","2","."," ","d">>, <<"p">>}

MixLines ==
    {<<"*"," ","I","n","t","r","o">>, <<"*","*"," ","A"," ","*","b","*">>, <<"-"," ","a">>, <<" "," "," ","+"," ","c">>, <<" "," ","1","."," ","b">>, <<"-","-","-","-","-">>, <<>>, <<"S","o","m","e"," ","*","b","o","l","d","*"," ","t","e","x","t",".">>,
     <<"#","+","B","E","G","I","N","_","Q","U","O","T","E">>, <<"#","+","E","N","D","_","Q","U","O","T","E">>, <<"#","+","B","e","g","i","n","_","S","r","c">>, <<"#","+","E","n","d","_","S","r","c">>}

TableLines == {<<"|","a","|","b","|">>, <<"|","-","-","|","-","-","|">>, <<"|","1","|","2","|">>, <<"p">>}

Documents ==
    Texts(MetaLines, MaxMetaLines)
    \cup UNION {Texts(K, MaxKeyLines) : K \in KeyLines}
    \cup Texts(ListLines, MaxListLines) \cup Texts(CodeLines, MaxCodeLines)
    \cup Texts(MixLines, MaxMixLines) \cup Texts(TableLines, MaxTableLines)
    \cup Texts(OrderedLines, MaxOrderedLines)

(***************************************************************************)
(* State.                                                                  *)
(***************************************************************************)
VARIABLES
    content,                  \* parse_file: the text read from the file
    pc,                       \* parse_file: the statement to run next
    self_metadata,            \* OrgParser.metadata
    self_content_html,        \* OrgParser.content_html
    self_toc_html,            \* OrgParser.toc_html
    content_without_metadata, \* parse_file: the text without directive lines
    loop,                     \* the locals of _convert_to_html
    taken,                    \* the branch the last loop iteration took
    result,                   \* what parse_file returned
    toc_pc,                   \* _generate_toc called on its own: the statement to run next
    toc,                      \* _generate_toc called on its own: its locals
    toc_out,                  \* _generate_toc called on its own: what it returned
    calls,                    \* parse_file calls in flight on one shared parser
    site                      \* OrgPageConverter: the batch and its collections

vars ==
    <<content, pc, self_metadata, self_content_html, self_toc_html,
      content_without_metadata, loop, taken, result, toc_pc, toc, toc_out, calls, site>>

parseVars == <<content, pc, content_without_metadata, loop, taken, result>>
selfVars == <<self_metadata, self_content_html, self_toc_html>>
tocVars == <<toc_pc, toc, toc_out>>

NoResult == [returned |-> FALSE]

\* OrgParser.__init__
InitSelf ==
    /\ self_metadata = DefaultMetadata
    /\ self_content_html = <<>>
    /\ self_toc_html = <<>>

IdleParse ==
    /\ content = <<>>
    /\ pc = "idle"
    /\ content_without_metadata = <<>>
    /\ loop = LoopStart(<<>>)
    /\ taken = "none"
    /\ result = NoResult

IdleToc ==
    /\ toc_pc = "idle"
    /\ toc = TocStart(<<>>)
    /\ toc_out = <<>>

IdleCalls == calls = <<>>

\* OrgPageConverter.__init__: no file yet, empty collections
NoSite ==
    [files |-> <<>>, k |-> 0, pc |-> "idle", exc |-> "none", parsed |-> DefaultMetadata,
     posts |-> <<>>, pages |-> <<>>, tags |-> <<>>, categories |-> <<>>, errors |-> <<>>]

IdleSite == site = NoSite

(***************************************************************************)
(* OrgParser.parse_file on one document.                                   *)
(***************************************************************************)
Init ==
    /\ content \in Documents
    /\ pc = "extract"
    /\ content_without_metadata = <<>>
    /\ loop = LoopStart(<<>>)
    /\ taken = "none"
    /\ result = NoResult
    /\ InitSelf
    /\ IdleToc
    /\ IdleCalls
    /\ IdleSite

\* self.metadata = self._extract_metadata(content)
Extract ==
    /\ pc = "extract"
    /\ self_metadata' = ExtractMetadata(content)
    /\ pc' = "remove"
    /\ UNCHANGED <<content, self_content_html, self_toc_html, content_without_metadata,
                   loop, taken, result, tocVars, calls, site>>

\* content_without_metadata = self._remove_metadata_lines(content)
Remove ==
    /\ pc = "remove"
    /\ content_without_metadata' = RemoveMetadataLines(content)
    /\ pc' = "convert"
    /\ UNCHANGED <<content, selfVars, loop, taken, result, tocVars, calls, site>>

\* the call of _convert_to_html, up to its loop
Convert ==
    /\ pc = "convert"
    /\ loop' = LoopStart(content_without_metadata)
    /\ pc' = "loop"
    /\ UNCHANGED <<content, selfVars, content_without_metadata, taken, result, tocVars, calls, site>>

\* one iteration of the loop, for a line that takes branch b
Iterate(b, next) ==
    /\ pc = "loop"
    /\ LoopRunning(loop)
    /\ Branch(loop) = b
    /\ loop' = next
    /\ taken' = b
    /\ pc' = IF loop'.exc = "none" THEN "loop" ELSE "raised"
    /\ UNCHANGED <<content, selfVars, content_without_metadata, result, tocVars, calls, site>>

BeginSrc == Iterate("begin_src", StepBeginSrc(loop))
EndSrc == Iterate("end_src", StepEndSrc(loop))
CodeLine == Iterate("code", StepCode(loop))
BeginQuote == Iterate("begin_quote", StepBeginQuote(loop))
EndQuote == Iterate("end_quote", StepEndQuote(loop))
Heading == Iterate("heading", StepHeading(loop))
BulletItem == Iterate("list", StepList(loop))
NumberItem == Iterate("num_list", StepNumList(loop))
HorizontalRule == Iterate("hr", StepHr(loop))
Table == Iterate("table", StepTable(loop))
Paragraph == Iterate("paragraph", StepParagraph(loop))
Blank == Iterate("blank", StepBlank(loop))

\* the end of _convert_to_html, and the assignment of what it returns
ConvertEnd ==
    /\ pc = "loop"
    /\ ~LoopRunning(loop)
    /\ loop' = LoopEnd(loop)
    /\ self_content_html' = JoinLines(loop'.html_lines)
    /\ self_toc_html' = GenerateToc(loop'.toc_entries)
    /\ pc' = "return"
    /\ UNCHANGED <<content, self_metadata, content_without_metadata, taken, result,
                   tocVars, calls, site>>

\* return self.metadata, self.content_html, self.toc_html
Return ==
    /\ pc = "return"
    /\ result' = [returned |-> TRUE, metadata |-> self_metadata,
                  content_html |-> self_content_html, toc_html |-> self_toc_html]
    /\ pc' = "done"
    /\ UNCHANGED <<content, selfVars, content_without_metadata, loop, taken, tocVars, calls, site>>

Next ==
    \/ Extract \/ Remove \/ Convert
    \/ BeginSrc \/ EndSrc \/ CodeLine \/ BeginQuote \/ EndQuote
    \/ Heading \/ BulletItem \/ NumberItem \/ HorizontalRule \/ Table
    \/ Paragraph \/ Blank
    \/ ConvertEnd \/ Return

Spec == Init /\ [][Next]_vars

(***************************************************************************)
(* OrgParser._generate_toc called on its own, on any sequence of heading   *)
(* entries (level, title, anchor).                                         *)
(***************************************************************************)
TocTitles == {<<"A">>, <<"B">>, <<"C">>}

TocEntries == {<<level, title, Anchor(title)>> : level \in 1..MaxTocLevel, title \in TocTitles}

TocInputs == {<<>>} \cup SeqsUpTo(TocEntries, MaxTocEntries)

InitToc ==
    /\ toc_pc = "call"
    /\ toc \in {[TocStart(e) EXCEPT !.html = <<>>] : e \in TocInputs}
    /\ toc_out = <<>>
    /\ IdleParse
    /\ InitSelf
    /\ IdleCalls
    /\ IdleSite

\* if not toc_entries: return ""; otherwise the three header lines
TocCall ==
    /\ toc_pc = "call"
    /\ IF toc.entries = <<>>
       THEN toc_pc' = "done" /\ UNCHANGED toc
       ELSE toc_pc' = "loop" /\ toc' = TocStart(toc.entries)
    /\ UNCHANGED <<toc_out, parseVars, selfVars, calls, site>>

\* for level, title, anchor in toc_entries: one iteration
TocIterate ==
    /\ toc_pc = "loop"
    /\ toc.k <= Len(toc.entries)
    /\ toc' = TocEntry(toc)
    /\ toc_pc' = IF toc'.exc = "none" THEN "loop" ELSE "raised"
    /\ UNCHANGED <<toc_out, parseVars, selfVars, calls, site>>

\* "Close remaining tags", and the return
TocReturn ==
    /\ toc_pc = "loop"
    /\ toc.k > Len(toc.entries)
    /\ toc_out' = TocFinish(toc)
    /\ toc_pc' = "done"
    /\ UNCHANGED <<toc, parseVars, selfVars, calls, site>>

NextToc == TocCall \/ TocIterate \/ TocReturn

SpecToc == InitToc /\ [][NextToc]_vars

(***************************************************************************)
(* parse_file calls that run in parallel on the one parser an              *)
(* OrgPageConverter holds (self.parser).  A call's locals are its own; the *)
(* attributes of self are shared, and every store to one and load from one *)
(* is a step of its own.                                                   *)
(***************************************************************************)
SharedDocuments ==
    {<<"#","+","T","I","T","L","E",":"," ","A","\n","*"," ","x","\n","a">>, <<"#","+","T","I","T","L","E",":"," ","B","\n","#","+","T","A","G","S",":"," ","t","\n","-"," ","y">>, <<"c","\n","|","a","|","b","|">>}

NewCall(text) ==
    [pc |-> "extract", content |-> text, content_without_metadata |-> <<>>,
     converted |-> [exc |-> "none", content_html |-> <<>>, toc_html |-> <<>>],
     result |-> [metadata |-> DefaultMetadata, content_html |-> <<>>, toc_html |-> <<>>]]

InitShared ==
    /\ calls \in [1..NumThreads -> {NewCall(d) : d \in SharedDocuments}]
    /\ InitSelf
    /\ IdleParse
    /\ IdleToc
    /\ IdleSite

At(t, where) == calls[t].pc = where

\* self.metadata = self._extract_metadata(content)
CallExtract(t) ==
    /\ At(t, "extract")
    /\ self_metadata' = ExtractMetadata(calls[t].content)
    /\ calls' = [calls EXCEPT ![t].pc = "remove"]
    /\ UNCHANGED <<self_content_html, self_toc_html, parseVars, tocVars, site>>

\* content_without_metadata = self._remove_metadata_lines(content)
CallRemove(t) ==
    /\ At(t, "remove")
    /\ calls' = [calls EXCEPT
                   ![t].content_without_metadata = RemoveMetadataLines(calls[t].content),
                   ![t].pc = "convert"]
    /\ UNCHANGED <<selfVars, parseVars, tocVars, site>>

\* self._convert_to_html(content_without_metadata), which may raise
CallConvert(t) ==
    /\ At(t, "convert")
    /\ LET c == ConvertToHtml(calls[t].content_without_metadata)
       IN  calls' = [calls EXCEPT
                       ![t].converted = c,
                       ![t].pc = IF c.exc = "none" THEN "store_content" ELSE "raised"]
    /\ UNCHANGED <<selfVars, parseVars, tocVars, site>>

\* self.content_html, ... = ...
StoreContentHtml(t) ==
    /\ At(t, "store_content")
    /\ self_content_html' = calls[t].converted.content_html
    /\ calls' = [calls EXCEPT ![t].pc = "store_toc"]
    /\ UNCHANGED <<self_metadata, self_toc_html, parseVars, tocVars, site>>

\* ..., self.toc_html = ...
StoreTocHtml(t) ==
    /\ At(t, "store_toc")
    /\ self_toc_html' = calls[t].converted.toc_html
    /\ calls' = [calls EXCEPT ![t].pc = "load_metadata"]
    /\ UNCHANGED <<self_metadata, self_content_html, parseVars, tocVars, site>>

\* return self.metadata, ...
LoadMetadata(t) ==
    /\ At(t, "load_metadata")
    /\ calls' = [calls EXCEPT ![t].result.metadata = self_metadata,
                              ![t].pc = "load_content"]
    /\ UNCHANGED <<selfVars, parseVars, tocVars, site>>

\* return ..., self.content_html, ...
LoadContentHtml(t) ==
    /\ At(t, "load_content")
    /\ calls' = [calls EXCEPT ![t].result.content_html = self_content_html,
                              ![t].pc = "load_toc"]
    /\ UNCHANGED <<selfVars, parseVars, tocVars, site>>

\* return ..., self.toc_html
LoadTocHtml(t) ==
    /\ At(t, "load_toc")
    /\ calls' = [calls EXCEPT ![t].result.toc_html = self_toc_html,
                              ![t].pc = "done"]
    /\ UNCHANGED <<selfVars, parseVars, tocVars, site>>

NextShared ==
    \E t \in 1..NumThreads :
        \/ CallExtract(t) \/ CallRemove(t) \/ CallConvert(t)
        \/ StoreContentHtml(t) \/ StoreTocHtml(t)
        \/ LoadMetadata(t) \/ LoadContentHtml(t) \/ LoadTocHtml(t)

SpecShared == InitShared /\ [][NextShared]_vars


(***************************************************************************)
(* OrgPageConverter.convert_directory: the org files of a directory, one   *)
(* _process_org_file call after the other on the converter's collections.  *)
(***************************************************************************)
SiteDocuments ==
    {<<"#","+","T","I","T","L","E",":"," ","P","\n","#","+","D","A","T","E",":"," ","2","0","2","4","-","0","1","-","1","5","\n","#","+","T","A","G","S",":"," ","a"," ","b","\n","-"," ","x">>,
     <<"#","+","T","I","T","L","E",":"," ","Q","\n","#","+","T","A","G","S",":"," ","a","\n","#","+","C","A","T","E","G","O","R","I","E","S",":"," ","c","\n","t","e","x","t">>,
     <<"*"," ","h","\n","|","a","|","b","|">>}

\* what the file system does with a file: nothing, open() of the source
\* raises, the output cannot be written, or the name starts with a dot
Faults == {"none", "unreadable", "unwritable", "hidden"}

\* an org file: its text, whether its path has "blog" or "post" in it, its
\* fault; the text of a file that is never read is of no account
SiteFiles ==
    [content : SiteDocuments, in_blog : BOOLEAN, fault : {"none", "unwritable"}]
    \cup [content : {<<"t","e","x","t">>}, in_blog : {FALSE}, fault : {"unreadable", "hidden"}]

\* what parse_file hands back: the metadata and what _convert_to_html returned
Parsed(metadata, c) ==
    [exc |-> c.exc, metadata |-> metadata,
     content_html |-> c.content_html, toc_html |-> c.toc_html]

\* OrgParser.parse_file, called by one caller at a time
ParseFile(file) ==
    IF file.fault = "unreadable"
    THEN [exc |-> "OSError", metadata |-> DefaultMetadata,
          content_html |-> <<>>, toc_html |-> <<>>]
    ELSE Parsed(ExtractMetadata(file.content),
                ConvertToHtml(RemoveMetadataLines(file.content)))

\* is_post = "blog" in path or "post" in path or metadata.date
IsPost(file, metadata) == file.in_blog \/ metadata.date # NoDate

\* a variant that handles file-system errors only
CaughtOSErrorOnly(exc) == exc = "OSError"

\* except Exception as e
Caught(exc) == exc \in {"OSError", "re.error", "IndexError"}

\* if key not in d: d[key] = []; d[key].append(entry), for each key in turn
RECURSIVE AddToEach(_, _, _)
AddToEach(d, keys, entry) ==
    IF keys = <<>> THEN d
    ELSE LET key == Head(keys)
             at == {n \in 1..Len(d) : d[n].key = key}
             next == IF at = {}
                     THEN Append(d, [key |-> key, entries |-> <<entry>>])
                     ELSE [d EXCEPT ![CHOOSE n \in at : TRUE].entries = Append(@, entry)]
         IN  AddToEach(next, Tail(keys), entry)

\* "Store entry for later use"
StoreEntry(s, entry, is_post) ==
    IF is_post
    THEN [s EXCEPT !.posts = Append(@, entry),
                   !.tags = AddToEach(@, entry.metadata.tags, entry),
                   !.categories = AddToEach(@, entry.metadata.categories, entry)]
    ELSE [s EXCEPT !.pages = Append(@, entry)]

InitSite ==
    /\ site \in {[NoSite EXCEPT !.files = fs, !.pc = "next"] :
                    fs \in SeqsUpTo(SiteFiles, MaxFiles)}
    /\ InitSelf
    /\ IdleParse
    /\ IdleToc
    /\ IdleCalls

File == site.files[site.k]

\* for org_file in input_dir.rglob("*.org"): a name that starts with a dot
SkipHidden ==
    /\ site.pc = "next"
    /\ site.k < Len(site.files)
    /\ site.files[site.k + 1].fault = "hidden"
    /\ site' = [site EXCEPT !.k = @ + 1]
    /\ UNCHANGED <<parseVars, selfVars, tocVars, calls>>

\* self._process_org_file(org_file, rel_path, output_dir, template_engine)
CallProcess ==
    /\ site.pc = "next"
    /\ site.k < Len(site.files)
    /\ site.files[site.k + 1].fault # "hidden"
    /\ site' = [site EXCEPT !.k = @ + 1, !.pc = "parse", !.exc = "none"]
    /\ UNCHANGED <<parseVars, selfVars, tocVars, calls>>

\* metadata, content_html, toc_html = self.parser.parse_file(org_file)
FileParse ==
    /\ site.pc = "parse"
    /\ \E r \in {ParseFile(File)} :
          /\ site' = IF r.exc = "none"
                      THEN [site EXCEPT !.pc = "write", !.parsed = r.metadata]
                      ELSE [site EXCEPT !.pc = "except", !.exc = r.exc]
          /\ self_metadata' = IF File.fault = "unreadable" THEN self_metadata ELSE r.metadata
          /\ self_content_html' = IF r.exc = "none" THEN r.content_html ELSE self_content_html
          /\ self_toc_html' = IF r.exc = "none" THEN r.toc_html ELSE self_toc_html
    /\ UNCHANGED <<parseVars, tocVars, calls>>

\* the output path, the template data, the rendering and the write
FileWrite ==
    /\ site.pc = "write"
    /\ site' = IF File.fault = "unwritable"
               THEN [site EXCEPT !.pc = "except", !.exc = "OSError"]
               ELSE [site EXCEPT !.pc = "store"]
    /\ UNCHANGED <<parseVars, selfVars, tocVars, calls>>

\* the entry goes to posts, tags and categories, or to pages
FileStore ==
    /\ site.pc = "store"
    /\ site' = [StoreEntry(site, [rel |-> site.k, metadata |-> site.parsed],
                           IsPost(File, site.parsed))
                  EXCEPT !.pc = "next"]
    /\ UNCHANGED <<parseVars, selfVars, tocVars, calls>>

\* the except clause: the error is printed and the call returns
FileExcept ==
    /\ site.pc = "except"
    /\ site' = IF Caught(site.exc)
               THEN [site EXCEPT !.pc = "next", !.errors = Append(@, site.k)]
               ELSE [site EXCEPT !.pc = "aborted"]
    /\ UNCHANGED <<parseVars, selfVars, tocVars, calls>>

\* after the loop: the index, tag and category pages and the feed
GenerateSite ==
    /\ site.pc = "next"
    /\ site.k = Len(site.files)
    /\ site' = [site EXCEPT !.pc = "done"]
    /\ UNCHANGED <<parseVars, selfVars, tocVars, calls>>

NextSite ==
    \/ SkipHidden \/ CallProcess \/ FileParse \/ FileWrite \/ FileStore \/ FileExcept
    \/ GenerateSite

SpecSite == InitSite /\ [][NextSite]_vars
(***************************************************************************)
(* Properties.                                                             *)
(***************************************************************************)
Last(s) == s[Len(s)]

\* the number of places where pat occurs in s
Occurrences(s, pat) == Cardinality({p \in 1..Len(s) : StartsWithAt(s, p, pat)})

\* the line the last loop iteration looked at
LineDone == loop.lines[loop.i]

\* C1: a heading line outside a code block, k marker characters, whitespace
\* and the title text T, puts <hk id="A">inline(T)</hk> in the output, A the
\* slug of T, and appends the entry (k, T, A) to the TOC entries.
C1_HeadingCarriesTitle ==
    (pc = "loop" /\ taken = "heading") =>
        LET k == SkipSet(LineDone, 1, {"*"}) - 1
            T == Strip(From(LineDone, k + 1))
            A == Anchor(T)
        IN  /\ Last(loop.html_lines) =
                 <<"<","h">> \o Str(k) \o <<" ","i","d","=","\"">> \o A \o <<"\"",">">> \o ProcessInlineMarkup(T)
                 \o <<"<","/","h">> \o Str(k) \o <<">">>
            /\ Last(loop.toc_entries) = <<k, T, A>>

\* C2: on a run of lines that start with a pipe the table parser returns
\* normally, the cursor moves past the whole run, separator rows included,
\* and the table has the first non-separator row as its header and one body
\* row for each later non-separator row.
C2_TableRunRendered ==
    taken = "table" =>
        /\ pc # "raised"
        /\ \E start \in 0..(loop.i - 1) :
              LET run == From(loop.lines, start + 1)
                  n == TableRun(run)
                  rows == SelectSeq([k \in 1..n |-> Strip(run[k])],
                                    LAMBDA row : ~IsSeparatorRow(row))
              IN  /\ loop.i = start + n
                  /\ rows # <<>>
                  /\ Last(loop.html_lines) = JoinLines(TableHtml(rows))

\* C3: after a bulleted item of indent width w the number of open list
\* containers is w div 2 + 1; at the end of input every container is closed
\* and contentHtml has as many list-opening as list-closing tags; for the
\* indents 0,2,4,2,0 the depth peaks at 3 and ends at 0.
C3_Indent(line) == SkipSpace(line, 1) - 1

C3_Opened(html) == Occurrences(html, <<"<","u","l",">">>) + Occurrences(html, <<"<","o","l",">">>)

C3_Closed(html) == Occurrences(html, <<"<","/","u","l",">">>) + Occurrences(html, <<"<","/","o","l",">">>)

C3_Example == JoinLines(<<<<"-"," ","a">>, <<" "," ","-"," ","b">>, <<" "," "," "," ","-"," ","c">>, <<" "," ","-"," ","b">>, <<"-"," ","a">>>>)

C3_ListDepth ==
    /\ (pc = "loop" /\ taken = "list") =>
          /\ Len(loop.list_stack) = C3_Indent(LineDone) \div 2 + 1
          /\ C3_Opened(JoinLines(loop.html_lines)) - C3_Closed(JoinLines(loop.html_lines))
               = C3_Indent(LineDone) \div 2 + 1
    /\ pc \in {"return", "done"} =>
          /\ loop.list_stack = <<>>
          /\ C3_Opened(self_content_html) = C3_Closed(self_content_html)
    /\ content = C3_Example =>
          /\ Len(loop.list_stack) <= 3
          /\ (pc = "loop" /\ loop.i = 3) => Len(loop.list_stack) = 3

C3_Witness ==
    /\ content = C3_Example
    /\ pc = "done"
    /\ C3_Opened(result.content_html) = 3

\* C4: for a non-empty sequence of heading entries the TOC builder emits one
\* list item per entry, in order; when an entry's item is emitted the number
\* of open list containers is the entry's level; at the end every container
\* is closed; for [(1,A),(2,B),(1,C)] B is nested one level under A, and C
\* follows at A's level once B's container is closed.
C4_Item(e) == <<"<","l","i",">","<","a"," ","h","r","e","f","=","\"","#">> \o e[3] \o <<"\"",">">> \o e[2] \o <<"<","/","a",">","<","/","l","i",">">>

C4_Count(ls, x) == Cardinality({k \in 1..Len(ls) : ls[k] = x})

C4_Example == <<<<1, <<"A">>, <<"a">>>>, <<2, <<"B">>, <<"b">>>>, <<1, <<"C">>, <<"c">>>>>>

C4_ExampleToc ==
    JoinLines(<<<<"<","d","i","v"," ","i","d","=","\"","t","a","b","l","e","-","o","f","-","c","o","n","t","e","n","t","s","\"",">">>, <<"<","h","2",">","T","a","b","l","e"," ","o","f"," ","C","o","n","t","e","n","t","s","<","/","h","2",">">>,
                <<"<","d","i","v"," ","i","d","=","\"","t","e","x","t","-","t","a","b","l","e","-","o","f","-","c","o","n","t","e","n","t","s","\"",">">>,
                <<"<","u","l",">">>, C4_Item(C4_Example[1]),
                <<"<","u","l",">">>, C4_Item(C4_Example[2]), <<"<","/","u","l",">">>,
                C4_Item(C4_Example[3]), <<"<","/","u","l",">">>,
                <<"<","/","d","i","v",">">>, <<"<","/","d","i","v",">">>>>)

C4_TocNesting ==
    /\ toc_pc # "raised"
    /\ (toc_pc = "loop" /\ toc.k > 1) =>
          LET e == toc.entries[toc.k - 1]
          IN  /\ Last(toc.html) = C4_Item(e)
              /\ Len(toc.stack) = e[1]
              /\ C4_Count(toc.html, <<"<","u","l",">">>) - C4_Count(toc.html, <<"<","/","u","l",">">>) = e[1]
    /\ (toc_pc = "done" /\ toc.entries # <<>>) =>
          LET ls == SplitLines(toc_out)
          IN  /\ SelectSeq(ls, LAMBDA l : StartsWith(l, <<"<","l","i",">">>))
                   = [k \in 1..Len(toc.entries) |-> C4_Item(toc.entries[k])]
              /\ C4_Count(ls, <<"<","u","l",">">>) = C4_Count(ls, <<"<","/","u","l",">">>)
    /\ (toc_pc = "done" /\ toc.entries = C4_Example) => toc_out = C4_ExampleToc

C4_Witness == toc_pc = "done" /\ toc.entries = C4_Example /\ toc_out # <<>>

\* C5: when the text has a line #+TITLE: X, the title extracted is X with
\* the whitespace around it trimmed (X the value of the first such line).
C5_TitleLines(text) ==
    SelectSeq(SplitLines(text), LAMBDA l : StartsWith(LStrip(l), <<"#","+","T","I","T","L","E",":">>))

C5_TitleIsTrimmedValue ==
    (pc # "extract" /\ C5_TitleLines(content) # <<>>) =>
        self_metadata.title =
            Strip(From(LStrip(C5_TitleLines(content)[1]), Len(<<"#","+","T","I","T","L","E",":">>) + 1))

\* C6: a begin-code marker followed by a language token L opens a code
\* container of class "src src-L"; without a token the language part is
\* empty.
C6_Language(line) ==
    LET after == From(Strip(line), Len(<<"#","+","B","E","G","I","N","_","S","R","C">>) + 1)
        w == SkipSpace(after, 1)
    IN  IF w > 1 /\ w <= Len(after) /\ IsWord(after[w])
        THEN SubSeq(after, w, SkipSet(after, w, {c \in Range(after) : IsWord(c)}) - 1)
        ELSE <<>>

C6_ContainerTaggedWithLanguage ==
    (pc = "loop" /\ taken = "begin_src") =>
        Last(loop.html_lines) = <<"<","p","r","e"," ","c","l","a","s","s","=","\"","s","r","c"," ","s","r","c","-">> \o C6_Language(LineDone) \o <<"\"",">","<","c","o","d","e",">">>

\* C7: directive stripping removes exactly the lines of the generic
\* directive shape (optional leading whitespace, #+, an uppercase word, a
\* colon), recognized key or not, keeps every other line as it is and in
\* order, and no directive line reaches the block parser.
C7_IsDirective(line) ==
    \E a \in 1..Len(line) : \E b \in (a + 3)..Len(line) :
        /\ \A k \in 1..(a - 1) : IsSpace(line[k])
        /\ line[a] = "#"
        /\ line[a + 1] = "+"
        /\ \A k \in (a + 2)..(b - 1) : line[k] \in UpperChars \cup {"_"}
        /\ line[b] = ":"

C7_StripsExactlyDirectives ==
    pc \notin {"extract", "remove"} =>
        /\ content_without_metadata =
             JoinLines(SelectSeq(SplitLines(content), LAMBDA l : ~C7_IsDirective(l)))
        /\ pc # "convert" => \A k \in 1..Len(loop.lines) : ~C7_IsDirective(loop.lines[k])

C7_Witness ==
    /\ pc = "loop"
    /\ content = JoinLines(<<<<"#","+","T","I","T","L","E",":"," ","H","i">>, <<"#","+","F","O","O","_","B","A","R",":"," ","x">>, <<"#","+","f","o","o",":"," ","x">>>>)
    /\ loop.lines = <<<<"#","+","f","o","o",":"," ","x">>>>

\* C8: directive stripping is idempotent: stripping the remaining body once
\* more leaves it as it is.
C8_StrippingIdempotent ==
    pc \notin {"extract", "remove"} =>
        RemoveMetadataLines(content_without_metadata) = content_without_metadata

C8_Witness ==
    /\ pc = "convert"
    /\ content = JoinLines(<<<<"#","+","T","I","T","L","E",":"," ","H","i">>, <<"#","+","T","A","G","S",":"," ","a"," ","b">>, <<"B","o","d","y">>>>)
    /\ content_without_metadata = <<"B","o","d","y">>

\* C9: for each recognized key, with several lines of that key the field
\* comes from the first of them and no later line changes the record: the
\* field is what the first line alone gives.
C9_Keys ==
    {[field |-> "title", pats |-> {<<"#","+","T","I","T","L","E",":">>}],
     [field |-> "date", pats |-> {<<"#","+","D","A","T","E",":">>}],
     [field |-> "tags", pats |-> {<<"#","+","T","A","G","S",":">>}],
     [field |-> "categories", pats |-> {<<"#","+","C","A","T","E","G","O","R","I","E",":">>, <<"#","+","C","A","T","E","G","O","R","I","E","S",":">>}],
     [field |-> "author", pats |-> {<<"#","+","A","U","T","H","O","R",":">>}],
     [field |-> "description", pats |-> {<<"#","+","D","E","S","C","R","I","P","T","I","O","N",":">>}],
     [field |-> "uri", pats |-> {<<"#","+","U","R","I",":">>}],
     [field |-> "keywords", pats |-> {<<"#","+","K","E","Y","W","O","R","D","S",":">>}]}

C9_LinesOf(key, text) ==
    SelectSeq(SplitLines(text), LAMBDA l : \E pat \in key.pats : StartsWith(LStrip(l), pat))

C9_FirstLineDecides ==
    pc # "extract" =>
        \A key \in C9_Keys :
            C9_LinesOf(key, content) # <<>> =>
                self_metadata[key.field]
                    = ExtractMetadata(C9_LinesOf(key, content)[1])[key.field]

\* C10: with parse invocations for different documents running in parallel
\* on a parser, in any interleaving, each invocation returns a triple
\* (metadata, contentHtml, tocHtml) derived from its own text only.
C10_OwnTriple ==
    \A t \in DOMAIN calls :
        calls[t].pc = "done" =>
            LET own == ConvertToHtml(RemoveMetadataLines(calls[t].content))
            IN  calls[t].result =
                    [metadata |-> ExtractMetadata(calls[t].content),
                     content_html |-> own.content_html, toc_html |-> own.toc_html]


\* C11: a failure while one document is processed is caught at the
\* per-document boundary: the batch is never aborted, a document whose
\* processing failed is in none of posts, pages, tags and categories, and
\* between two documents the collections hold exactly the documents
\* processed so far without failure, in processing order, so the entries of
\* earlier documents are kept and the later documents are still processed.
C11_Failed(j) ==
    LET f == site.files[j]
    IN  f.fault \in {"unreadable", "unwritable"}
        \/ ConvertToHtml(RemoveMetadataLines(f.content)).exc # "none"

C11_Stored(j) == site.files[j].fault # "hidden" /\ ~C11_Failed(j)

C11_Post(j) ==
    site.files[j].in_blog \/ ExtractMetadata(site.files[j].content).date # NoDate

C11_Rels(entries) == [n \in 1..Len(entries) |-> entries[n].rel]

C11_Upto(k, Keep(_)) == SelectSeq([j \in 1..k |-> j], Keep)

C11_FailureContained ==
    /\ site.pc # "aborted"
    /\ \A j \in 1..Len(site.files) :
          C11_Failed(j) =>
              /\ j \notin Range(C11_Rels(site.posts)) \cup Range(C11_Rels(site.pages))
              /\ \A n \in 1..Len(site.tags) : j \notin Range(C11_Rels(site.tags[n].entries))
              /\ \A n \in 1..Len(site.categories) :
                    j \notin Range(C11_Rels(site.categories[n].entries))
    /\ site.pc \in {"next", "done"} =>
          /\ C11_Rels(site.posts)
               = C11_Upto(site.k, LAMBDA j : C11_Stored(j) /\ C11_Post(j))
          /\ C11_Rels(site.pages)
               = C11_Upto(site.k, LAMBDA j : C11_Stored(j) /\ ~C11_Post(j))
          /\ \A j \in 1..site.k :
                (C11_Stored(j) /\ C11_Post(j)) =>
                    \A tag \in Range(ExtractMetadata(site.files[j].content).tags) :
                        \E n \in 1..Len(site.tags) :
                            /\ site.tags[n].key = tag
                            /\ j \in Range(C11_Rels(site.tags[n].entries))
    /\ site.pc = "done" => site.k = Len(site.files)

C11_Witness ==
    /\ site.pc = "done"
    /\ Len(site.files) = 2
    /\ site.errors = <<1>>
    /\ C11_Rels(site.posts) = <<2>>
    /\ site.tags # <<>>

\* C12: at every iteration of the line loop, and where the loop is left by
\* an exception, the list-container stack is as deep as the nesting-level
\* counter says, and no pop was attempted on an empty stack.
C12_StackMatchesLevel ==
    pc \in {"loop", "raised"} =>
        /\ Len(loop.list_stack) = loop.current_list_level
        /\ loop.exc # "IndexError"

C12_Witness ==
    /\ pc = "loop"
    /\ taken = "list"
    /\ loop.current_list_level = 1
    /\ Last(loop.list_stack) = <<"u","l">>
    /\ <<"<","/","o","l",">">> \in Range(loop.html_lines)

\* C13: once a line outside a code block that is neither a bulleted nor a
\* numbered item (a heading, a quote marker, a rule, a table row, a
\* paragraph, a blank line) has been processed, no list container is open.
C13_NonItemClosesLists ==
    (pc = "loop"
     /\ taken \in {"heading", "begin_quote", "end_quote", "hr", "table", "paragraph", "blank"}) =>
        /\ loop.current_list_level = 0
        /\ loop.list_stack = <<>>

\* C14: the list tags of the output nest properly, every closing tag has the
\* type of the most recently opened container still open, the containers
\* still open are those of the stack; and an item at the depth of an open
\* container of the other type opens and closes nothing.
RECURSIVE C14_Open(_, _)
C14_Open(html_lines, stack) ==
    IF html_lines = <<>> THEN stack
    ELSE LET l == Head(html_lines)
             rest == Tail(html_lines)
         IN  IF l \in {<<"<","u","l",">">>, <<"<","o","l",">">>}
             THEN C14_Open(rest, Append(stack, SubSeq(l, 2, 3)))
             ELSE IF l \in {<<"<","/","u","l",">">>, <<"<","/","o","l",">">>}
             THEN IF stack # <<>> /\ Last(stack) = SubSeq(l, 3, 4)
                  THEN C14_Open(rest, SubSeq(stack, 1, Len(stack) - 1))
                  ELSE <<<<"m","i","s","m","a","t","c","h">>>>
             ELSE C14_Open(rest, stack)

C14_TagsNest ==
    pc \in {"loop", "return", "done"} => C14_Open(loop.html_lines, <<>>) = loop.list_stack

C14_OtherTypeItem ==
    /\ pc = "loop"
    /\ LoopRunning(loop)
    /\ \/ /\ Branch(loop) = "list"
          /\ Len(ListMatch(Line(loop)).g1) \div 2 + 1 = loop.current_list_level
          /\ Last(loop.list_stack) = <<"o","l">>
       \/ /\ Branch(loop) = "num_list"
          /\ Len(NumListMatch(Line(loop)).g1) \div 2 + 1 = loop.current_list_level
          /\ Last(loop.list_stack) = <<"u","l">>

C14_TagFixedAtPush ==
    /\ []C14_TagsNest
    /\ [][C14_OtherTypeItem =>
            /\ loop'.list_stack = loop.list_stack
            /\ Len(loop'.html_lines) = Len(loop.html_lines) + 1
            /\ StartsWith(Last(loop'.html_lines), <<"<","l","i",">">>)]_vars

C14_Witness ==
    /\ pc = "done"
    /\ \E n \in 2..(Len(loop.lines) - 1) :
          /\ ListMatch(loop.lines[n]).matched
          /\ NumListMatch(loop.lines[n - 1]).matched
          /\ Len(ListMatch(loop.lines[n]).g1) = Len(NumListMatch(loop.lines[n - 1]).g1)
    /\ Occurrences(self_content_html, <<"<","/","o","l",">">>) = 1
    /\ Occurrences(self_content_html, <<"<","u","l",">">>) = 0

\* C15: a line outside a code block that is no code or quote marker is
\* handled by the first rule that matches it in the order heading, bulleted
\* item, numbered item, horizontal rule, table row, blank line, paragraph,
\* and what it adds to the output is the output of that rule alone (after
\* the list tags the rule opens or closes); a line of both the heading and
\* the bulleted-item shape is a heading.  A table row goes to the table
\* parser only, whose outcome C2 is about.
C15_Rules == {"heading", "list", "num_list", "hr", "table", "blank", "paragraph"}

C15_Class(line) ==
    IF HeadingMatch(line).matched THEN "heading"
    ELSE IF ListMatch(line).matched THEN "list"
    ELSE IF NumListMatch(line).matched THEN "num_list"
    ELSE IF IsHorizontalRule(line) THEN "hr"
    ELSE IF IsTableRow(line) THEN "table"
    ELSE IF Strip(line) = <<>> THEN "blank"
    ELSE "paragraph"

C15_Shape(rule, out) ==
    CASE rule = "heading" -> StartsWith(out, <<"<","h">>) /\ ~StartsWith(out, <<"<","h","r">>)
      [] rule \in {"list", "num_list"} -> StartsWith(out, <<"<","l","i",">">>)
      [] rule = "hr" -> out = <<"<","h","r"," ","/",">">>
      [] rule = "table" -> StartsWith(out, <<"<","t","a","b","l","e",">">>)
      [] rule = "blank" -> out = <<>>
      [] OTHER -> StartsWith(out, <<"<","p",">">>)

C15_ListTags == {<<"<","u","l",">">>, <<"<","o","l",">">>, <<"<","/","u","l",">">>, <<"<","/","o","l",">">>}

C15_Classified ==
    (pc \in {"loop", "raised"} /\ taken \in C15_Rules) =>
        LET line == IF pc = "loop" THEN LineDone ELSE Line(loop)
        IN  /\ taken = C15_Class(line)
            /\ pc = "raised" => taken = "table" /\ loop.exc = "re.error"
            /\ pc = "loop" => C15_Shape(taken, Last(loop.html_lines))

C15_OneRuleOnly ==
    (pc = "loop" /\ pc' = "loop" /\ taken' \in C15_Rules) =>
        /\ Len(loop'.html_lines) > Len(loop.html_lines)
        /\ SubSeq(loop'.html_lines, 1, Len(loop.html_lines)) = loop.html_lines
        /\ \A n \in (Len(loop.html_lines) + 1)..(Len(loop'.html_lines) - 1) :
              loop'.html_lines[n] \in C15_ListTags
        /\ taken' # "heading" => loop'.toc_entries = loop.toc_entries
        /\ taken' = "heading" => Len(loop'.toc_entries) = Len(loop.toc_entries) + 1

C16_IsEnd(line) == StartsWith(Strip(line), <<"#","+","E","N","D","_","S","R","C">>) \/ StartsWith(Strip(line), <<"#","+","e","n","d","_","s","r","c">>)

C16_CodeLinesVerbatim ==
    [][(pc = "loop" /\ LoopRunning(loop) /\ loop.in_code_block /\ ~C16_IsEnd(Line(loop))) =>
          /\ loop'.html_lines = Append(loop.html_lines, HtmlEscape(Line(loop)))
          /\ loop'.i = loop.i + 1
          /\ loop'.in_code_block
          /\ loop'.toc_entries = loop.toc_entries
          /\ loop'.list_stack = loop.list_stack]_vars

\* C17: a line that starts, in any mix of upper and lower case, with the
\* begin-code marker enters the code-block state, and one that starts with
\* the end-code marker leaves it.
C17_AnyCaseMarkers ==
    (pc = "loop" /\ taken # "none") =>
        /\ StartsWith(Lower(Strip(LineDone)), <<"#","+","b","e","g","i","n","_","s","r","c">>) =>
              (taken = "begin_src" /\ loop.in_code_block)
        /\ StartsWith(Lower(Strip(LineDone)), <<"#","+","e","n","d","_","s","r","c">>) =>
              (taken = "end_src" /\ ~loop.in_code_block)

\* C18: when the last begin-code marker of a document has no end-code marker
\* after it, the parser is in the code-block state from that marker on, no
\* exception is raised in that state, the output ends with the opening tag
\* of the code container, the escaped text of the lines after the marker and
\* the closing tags of the open list containers only, and parse_file returns
\* that output.
C18_IsBegin(line) ==
    StartsWith(Strip(line), <<"#","+","B","E","G","I","N","_","S","R","C">>) \/ StartsWith(Strip(line), <<"#","+","b","e","g","i","n","_","s","r","c">>)

C18_Begins == {b \in 1..Len(loop.lines) : C18_IsBegin(loop.lines[b])}

C18_Unterminated ==
    /\ pc \in {"loop", "return", "done"}
    /\ C18_Begins # {}
    /\ \A e \in (Max(C18_Begins) + 1)..Len(loop.lines) : ~C16_IsEnd(loop.lines[e])

C18_Tail(h) ==
    LET b == Max(C18_Begins)
        code == [j \in 1..(Len(loop.lines) - b) |-> HtmlEscape(loop.lines[b + j])]
    IN  \E c \in 0..Len(h) :
            /\ \A m \in (Len(h) - c + 1)..Len(h) : h[m] \in {<<"<","/","u","l",">">>, <<"<","/","o","l",">">>}
            /\ Len(h) - c - Len(code) >= 1
            /\ SubSeq(h, Len(h) - c - Len(code) + 1, Len(h) - c) = code
            /\ StartsWith(h[Len(h) - c - Len(code)], <<"<","p","r","e"," ","c","l","a","s","s","=","\"","s","r","c"," ","s","r","c","-">>)

C18_UnterminatedStaysOpen ==
    /\ pc = "raised" => ~loop.in_code_block
    /\ (C18_Unterminated /\ (pc = "loop" => loop.i >= Max(C18_Begins))) => loop.in_code_block
    /\ (C18_Unterminated /\ pc \in {"return", "done"}) =>
          /\ C18_Tail(loop.html_lines)
          /\ self_content_html = JoinLines(loop.html_lines)
    /\ (C18_Unterminated /\ pc = "done") =>
          /\ result.returned
          /\ result.content_html = self_content_html

C18_Witness ==
    /\ C18_Unterminated
    /\ pc = "done"
    /\ Last(loop.html_lines) = <<"<","/","u","l",">">>
    /\ Max(C18_Begins) < Len(loop.lines)

\* C19: a field comes from the text of its own directive line only: when the
\* first line of a key has nothing but whitespace after the colon, the field
\* keeps its default, whatever the following lines hold.
C19_Value(key, line) ==
    LET l == LStrip(line)
        pat == CHOOSE p \in key.pats : StartsWith(l, p)
    IN  Strip(From(l, Len(pat) + 1))

C19_BlankLeavesDefault ==
    pc # "extract" =>
        \A key \in C9_Keys :
            (C9_LinesOf(key, content) # <<>>
             /\ C19_Value(key, C9_LinesOf(key, content)[1]) = <<>>) =>
                self_metadata[key.field] = DefaultMetadata[key.field]

\* C20: every iteration of the line loop moves the cursor forward by at
\* least one line and never past the end; on a table row it moves by the
\* count the table parser returns, which is at least 1 and at most the
\* number of lines left.
C20_CursorAdvances ==
    [][(pc = "loop" /\ LoopRunning(loop)) =>
          /\ loop'.i > loop.i
          /\ loop'.i <= Len(loop.lines)
          /\ Branch(loop) = "table" =>
                LET t == ParseTable(From(loop.lines, loop.i + 1))
                IN  /\ ~t.raised
                    /\ t.consumed >= 1
                    /\ t.consumed <= Len(loop.lines) - loop.i
                    /\ loop'.i = loop.i + t.consumed]_vars
=============================================================================
